---- MODULE Spec2Model ----
(***************************************************************************)
(* parquet-arrow-generate-fuzz-corpus                                      *)
(* (cpp/src/parquet/arrow/generate_fuzz_corpus.cc).                        *)
(*                                                                         *)
(* The program is one sequential process: Main checks argc, DoMain creates *)
(* the output directory, builds the example batches and writes each of     *)
(* them to its own Parquet file.  The model follows the process statement  *)
(* by statement (pc names the next library call), keeps the file system    *)
(* across invocations, and lets every library call that returns a Status   *)
(* or a Result either succeed or fail where its outcome is decided by the  *)
(* environment.                                                            *)
(***************************************************************************)
EXTENDS Integers, Sequences, FiniteSets, TLC

VARIABLES
  pc,                 \* the statement the process executes next
  argc, argv1,        \* the command line: argument count and argv[1]
  out_dir,            \* Main: std::string out_dir
  dir_fn,             \* DoMain: PlatformFilename dir_fn
  sample_num,         \* DoMain: int sample_num
  batches,            \* DoMain: the vector returned by Batches()
  writer_properties,  \* DoMain: the WriterProperties
  idx,                \* DoMain: position of the range-for loop (1-based)
  table,              \* DoMain loop: std::shared_ptr<Table> table
  sample_fn,          \* DoMain loop: PlatformFilename sample_fn
  file,               \* DoMain loop: the FileOutputStream, or NoValue
  st,                 \* Main: the Status returned by DoMain
  exit_code,          \* the exit code of the process
  cerr,               \* the lines written to std::cerr by this process
  dirs, files,        \* the file system: directories and files
  open_fds,           \* the paths the process holds an open descriptor on
  wt,                 \* arguments and row groups of the last WriteTable call
  log, names, run     \* history: calls of this process, names handed out
                      \* by sample_name(), number of invocations so far

vars == <<pc, argc, argv1, out_dir, dir_fn, sample_num, batches,
          writer_properties, idx, table, sample_fn, file, st, exit_code,
          cerr, dirs, files, open_fds, wt, log, names, run>>

(***************************************************************************)
(* Bounds of the model.                                                    *)
(***************************************************************************)
MaxRuns == 2      \* invocations of the program in one behaviour
MaxArgc == 3      \* argc ranges over 0..MaxArgc
ListLen == 2      \* rows of the list column d (stands for kBatchSize)
ValuesLen == 2    \* length of its child array (stands for kBatchSize * 10)
MaxRows == 12     \* WriteTable alone: tables of 0..MaxRows rows
MaxChunk == 5     \* WriteTable alone: chunk sizes 1..MaxChunk

OutDirs == {"d1", "d2"}   \* the directory names given on the command line

NoValue == "null"          \* a string or a stream not set

None == [none |-> TRUE]    \* an object not set

(***************************************************************************)
(* Constants of the program.                                               *)
(***************************************************************************)
kBatchSize == 1000

kChunkSize_Quarters == (kBatchSize * 3) \div 4

kChunkSize == (kBatchSize * 3) \div 8

GetWriterProperties == [no_dictionary |-> {"no_dict"}]

UsageText == "Usage: parquet-arrow-generate-fuzz-corpus <output directory>"

(***************************************************************************)
(* Library: arrow::internal::PlatformFilename.                             *)
(***************************************************************************)
FromString(s) == [native |-> s]

FnToString(fn) == fn.native

Join(fn, child) == [native |-> fn.native \o "/" \o child]

(***************************************************************************)
(* Library: arrow::internal::CreateDir.  TRUE when the directory was       *)
(* created, FALSE when it existed already; an error when it can be neither *)
(* found nor created (creatable is the environment's answer).              *)
(***************************************************************************)
CreateDir(fn, existing, creatable) ==
  IF FnToString(fn) \in existing THEN [ok |-> TRUE, created |-> FALSE]
  ELSE IF creatable THEN [ok |-> TRUE, created |-> TRUE]
  ELSE [ok |-> FALSE, created |-> FALSE]

(***************************************************************************)
(* Library: random::RandomArrayGenerator::Offsets.  The offsets the        *)
(* generator may return: size of them, non-decreasing, the first one       *)
(* first_offset, none above last_offset.  The choice among them stands for *)
(* the random stream.                                                      *)
(***************************************************************************)
NonDecreasing(s) == \A i \in 1..(Len(s) - 1) : s[i] <= s[i + 1]

Offsets(size, first_offset, last_offset) ==
  {o \in [1..size -> first_offset..last_offset] :
      o[1] = first_offset /\ NonDecreasing(o)}

(***************************************************************************)
(* Library: the structural invariant of a list array and                   *)
(* RecordBatch::ValidateFull.                                              *)
(***************************************************************************)
ListValid(list) ==
  /\ Len(list.offsets) = list.length + 1
  /\ list.offsets[1] = 0
  /\ NonDecreasing(list.offsets)
  /\ list.offsets[Len(list.offsets)] <= list.values_length

ValidateFull(batch) ==
  /\ Len(batch.schema.fields) = batch.num_columns
  /\ ListValid(batch.d)

(***************************************************************************)
(* Library: parquet::arrow::WriteTable splits the rows of the table into   *)
(* consecutive row groups of at most chunk_size rows.                      *)
(***************************************************************************)
Min(a, b) == IF a <= b THEN a ELSE b

RowGroups(num_rows, chunk_size) ==
  LET n == (num_rows + chunk_size - 1) \div chunk_size
  IN  [i \in 1..n |-> Min(chunk_size, num_rows - (i - 1) * chunk_size)]

RECURSIVE Sum(_)
Sum(s) == IF s = <<>> THEN 0 ELSE Head(s) + Sum(Tail(s))

(***************************************************************************)
(* ExampleBatch1: the batches the function may return (one per choice of   *)
(* the offsets), or the error of lines 64 and 67 (see DoMain_Batches).     *)
(* Column d is the list column of lines 61-65, kept at reduced size: it    *)
(* has ListLen rows over a child array of ValuesLen values where the       *)
(* program has kBatchSize rows over kBatchSize * 10 values, and its        *)
(* offsets come from Offsets(rows + 1, 0, values->length()) as in line 63. *)
(* The other five columns carry no structure the model reads.              *)
(***************************************************************************)
ExampleSchema ==
  [fields |-> <<"a", "b", "c", "d", "e", "no_dict">>,
   metadata |-> << <<"key1", "value1">>, <<"key2", "">> >>]

ExampleBatch1_OffsetsPastValues ==
  {[schema |-> ExampleSchema, num_rows |-> kBatchSize, num_columns |-> 6,
    d |-> [length |-> ListLen, offsets |-> o, values_length |-> ValuesLen]] :
      o \in Offsets(ListLen + 1, 0, ValuesLen + 1)}

ExampleBatch1 ==
  {[schema |-> ExampleSchema, num_rows |-> kBatchSize, num_columns |-> 6,
    d |-> [length |-> ListLen, offsets |-> o, values_length |-> ValuesLen]] :
      o \in Offsets(ListLen + 1, 0, ValuesLen)}

(***************************************************************************)
(* Batches: the vector holding the one example batch.                      *)
(***************************************************************************)
Batches == {<<b>> : b \in ExampleBatch1}

(***************************************************************************)
(* sample_name: the lambda of DoMain; the name it returns and the value it *)
(* leaves in sample_num.                                                   *)
(***************************************************************************)
sample_name_PreIncrement(n) ==
  [name |-> "pq-table-" \o ToString(n + 1), sample_num |-> n + 1]

sample_name(n) == [name |-> "pq-table-" \o ToString(n), sample_num |-> n + 1]

Called(step, ok) == Append(log, [step |-> step, ok |-> ok])

\* The locals of the process before DoMain has set them.
Fresh ==
  /\ out_dir' = NoValue /\ dir_fn' = None /\ sample_num' = -1
  /\ batches' = <<>> /\ writer_properties' = None /\ idx' = 0
  /\ table' = None /\ sample_fn' = None /\ file' = NoValue
  /\ st' = "none" /\ exit_code' = -1 /\ cerr' = <<>> /\ open_fds' = {}
  /\ log' = <<>> /\ names' = <<>>

Init ==
  /\ pc = "idle" /\ argc = 0 /\ argv1 = NoValue
  /\ out_dir = NoValue /\ dir_fn = None /\ sample_num = -1
  /\ batches = <<>> /\ writer_properties = None /\ idx = 0
  /\ table = None /\ sample_fn = None /\ file = NoValue
  /\ st = "none" /\ exit_code = -1 /\ cerr = <<>> /\ open_fds = {}
  /\ log = <<>> /\ names = <<>> /\ run = 0
  /\ wt = None
  /\ dirs \in SUBSET OutDirs
  /\ files = [p \in {} |-> NoValue]

(***************************************************************************)
(* A new invocation of the program: the process starts with the command    *)
(* line the caller gives it and the file system the earlier runs left.     *)
(***************************************************************************)
Exec ==
  /\ pc \in {"idle", "exited"}
  /\ run < MaxRuns
  /\ run' = run + 1
  /\ \E n \in 0..MaxArgc :
       /\ argc' = n
       /\ IF n >= 2 THEN argv1' \in OutDirs ELSE argv1' = NoValue
  /\ pc' = "Main"
  /\ Fresh
  /\ UNCHANGED <<dirs, files, wt>>

(***************************************************************************)
(* Main, lines 120-124: the argument count decides between Usage and       *)
(* DoMain.                                                                 *)
(***************************************************************************)
Main_ArgcBelowTwo ==
  /\ pc = "Main"
  /\ IF argc < 2
       THEN pc' = "Usage" /\ UNCHANGED out_dir
       ELSE pc' = "DoMain" /\ out_dir' = argv1
  /\ UNCHANGED <<argc, argv1, dir_fn, sample_num, batches, writer_properties,
                 idx, table, sample_fn, file, st, exit_code, cerr, dirs,
                 files, open_fds, wt, log, names, run>>

Main ==
  /\ pc = "Main"
  /\ IF argc # 2
       THEN pc' = "Usage" /\ UNCHANGED out_dir
       ELSE pc' = "DoMain" /\ out_dir' = argv1
  /\ UNCHANGED <<argc, argv1, dir_fn, sample_num, batches, writer_properties,
                 idx, table, sample_fn, file, st, exit_code, cerr, dirs,
                 files, open_fds, wt, log, names, run>>

\* Usage, lines 114-118.
Usage ==
  /\ pc = "Usage"
  /\ cerr' = Append(cerr, UsageText)
  /\ exit_code' = 2
  /\ pc' = "exited"
  /\ UNCHANGED <<argc, argv1, out_dir, dir_fn, sample_num, batches,
                 writer_properties, idx, table, sample_fn, file, st, dirs,
                 files, open_fds, wt, log, names, run>>

(***************************************************************************)
(* DoMain returns status: the locals of DoMain go out of scope, and the    *)
(* destructor of a FileOutputStream still open releases its descriptor.    *)
(***************************************************************************)
Returns(status) ==
  /\ st' = status
  /\ pc' = "Main_st"
  /\ file' = NoValue
  /\ open_fds' = {}

\* DoMain, line 87.
DoMain_FromString ==
  /\ pc = "DoMain"
  /\ \E ok \in BOOLEAN :
       /\ log' = Called("FromString", ok)
       /\ IF ok
            THEN /\ dir_fn' = FromString(out_dir)
                 /\ pc' = "CreateDir"
                 /\ UNCHANGED <<st, file, open_fds>>
            ELSE /\ Returns("FromString")
                 /\ UNCHANGED dir_fn
  /\ UNCHANGED <<argc, argv1, out_dir, sample_num, batches,
                 writer_properties, idx, table, sample_fn, exit_code, cerr,
                 dirs, files, wt, names, run>>

\* DoMain, line 88, with the status of CreateDir dropped.
DoMain_CreateDir_Unchecked ==
  /\ pc = "CreateDir"
  /\ \E creatable \in BOOLEAN :
       LET r == CreateDir(dir_fn, dirs, creatable) IN
       /\ log' = Called("CreateDir", r.ok)
       /\ dirs' = IF r.created THEN dirs \cup {FnToString(dir_fn)} ELSE dirs
       /\ pc' = "sample_num"
       /\ UNCHANGED <<st, file, open_fds>>
  /\ UNCHANGED <<argc, argv1, out_dir, dir_fn, sample_num, batches,
                 writer_properties, idx, table, sample_fn, exit_code, cerr,
                 files, wt, names, run>>

\* DoMain, line 88.
DoMain_CreateDir ==
  /\ pc = "CreateDir"
  /\ \E creatable \in BOOLEAN :
       LET r == CreateDir(dir_fn, dirs, creatable) IN
       /\ log' = Called("CreateDir", r.ok)
       /\ dirs' = IF r.created THEN dirs \cup {FnToString(dir_fn)} ELSE dirs
       /\ IF r.ok
            THEN pc' = "sample_num" /\ UNCHANGED <<st, file, open_fds>>
            ELSE Returns("CreateDir")
  /\ UNCHANGED <<argc, argv1, out_dir, dir_fn, sample_num, batches,
                 writer_properties, idx, table, sample_fn, exit_code, cerr,
                 files, wt, names, run>>

\* DoMain, lines 90-93.
DoMain_sample_num ==
  /\ pc = "sample_num"
  /\ sample_num' = 1
  /\ pc' = "Batches"
  /\ UNCHANGED <<argc, argv1, out_dir, dir_fn, batches, writer_properties,
                 idx, table, sample_fn, file, st, exit_code, cerr, dirs,
                 files, open_fds, wt, log, names, run>>

\* DoMain, line 95: Batches() returns the vector, or the error of
\* ExampleBatch1 (lines 64 and 67).
DoMain_Batches ==
  /\ pc = "Batches"
  /\ \/ \E v \in Batches :
          /\ batches' = v
          /\ log' = Called("Batches", TRUE)
          /\ pc' = "GetWriterProperties"
          /\ UNCHANGED <<st, file, open_fds>>
     \/ /\ log' = Called("Batches", FALSE)
        /\ Returns("Batches")
        /\ UNCHANGED batches
  /\ UNCHANGED <<argc, argv1, out_dir, dir_fn, sample_num,
                 writer_properties, idx, table, sample_fn, exit_code, cerr,
                 dirs, files, wt, names, run>>

\* DoMain, line 97, and the start of the loop of line 99.
DoMain_GetWriterProperties ==
  /\ pc = "GetWriterProperties"
  /\ writer_properties' = GetWriterProperties
  /\ idx' = 1
  /\ pc' = "for"
  /\ UNCHANGED <<argc, argv1, out_dir, dir_fn, sample_num, batches, table,
                 sample_fn, file, st, exit_code, cerr, dirs, files,
                 open_fds, wt, log, names, run>>

\* DoMain, line 99, with the call of line 100 left out.
DoMain_for_SkipsValidation ==
  /\ pc = "for"
  /\ IF idx <= Len(batches)
       THEN pc' = "FromRecordBatches" /\ UNCHANGED <<st, file, open_fds>>
       ELSE Returns("OK")
  /\ UNCHANGED <<argc, argv1, out_dir, dir_fn, sample_num, batches,
                 writer_properties, idx, table, sample_fn, exit_code, cerr,
                 dirs, files, wt, log, names, run>>

\* DoMain, line 99 (the loop test) and line 111 (return Status::OK()).
DoMain_for ==
  /\ pc = "for"
  /\ IF idx <= Len(batches)
       THEN pc' = "ValidateFull" /\ UNCHANGED <<st, file, open_fds>>
       ELSE Returns("OK")
  /\ UNCHANGED <<argc, argv1, out_dir, dir_fn, sample_num, batches,
                 writer_properties, idx, table, sample_fn, exit_code, cerr,
                 dirs, files, wt, log, names, run>>

\* DoMain, line 100, with the status of ValidateFull dropped.
DoMain_ValidateFull_Unchecked ==
  /\ pc = "ValidateFull"
  /\ log' = Called("ValidateFull", ValidateFull(batches[idx]))
  /\ pc' = "FromRecordBatches"
  /\ UNCHANGED <<argc, argv1, out_dir, dir_fn, sample_num, batches,
                 writer_properties, idx, table, sample_fn, file, st,
                 open_fds, exit_code, cerr, dirs, files, wt, names, run>>

\* DoMain, line 100.
DoMain_ValidateFull ==
  /\ pc = "ValidateFull"
  /\ LET ok == ValidateFull(batches[idx]) IN
       /\ log' = Called("ValidateFull", ok)
       /\ IF ok
            THEN pc' = "FromRecordBatches" /\ UNCHANGED <<st, file, open_fds>>
            ELSE Returns("ValidateFull")
  /\ UNCHANGED <<argc, argv1, out_dir, dir_fn, sample_num, batches,
                 writer_properties, idx, table, sample_fn, exit_code, cerr,
                 dirs, files, wt, names, run>>

\* DoMain, lines 101-102.
DoMain_FromRecordBatches ==
  /\ pc = "FromRecordBatches"
  /\ \E ok \in BOOLEAN :
       /\ log' = Called("FromRecordBatches", ok)
       /\ IF ok
            THEN /\ table' = [schema |-> batches[idx].schema,
                              num_rows |-> batches[idx].num_rows]
                 /\ pc' = "Join"
                 /\ UNCHANGED <<st, file, open_fds>>
            ELSE /\ Returns("FromRecordBatches")
                 /\ UNCHANGED table
  /\ UNCHANGED <<argc, argv1, out_dir, dir_fn, sample_num, batches,
                 writer_properties, idx, sample_fn, exit_code, cerr, dirs,
                 files, wt, names, run>>

\* DoMain, line 104: sample_name() is evaluated, then Join.
DoMain_Join ==
  /\ pc = "Join"
  /\ LET r == sample_name(sample_num) IN
       /\ sample_num' = r.sample_num
       /\ names' = Append(names, r.name)
       /\ \E ok \in BOOLEAN :
            /\ log' = Called("Join", ok)
            /\ IF ok
                 THEN /\ sample_fn' = Join(dir_fn, r.name)
                      /\ pc' = "cerr"
                      /\ UNCHANGED <<st, file, open_fds>>
                 ELSE /\ Returns("Join")
                      /\ UNCHANGED sample_fn
  /\ UNCHANGED <<argc, argv1, out_dir, dir_fn, batches, writer_properties,
                 idx, table, exit_code, cerr, dirs, files, wt, run>>

\* DoMain, line 105.
DoMain_cerr ==
  /\ pc = "cerr"
  /\ cerr' = Append(cerr, FnToString(sample_fn))
  /\ log' = Called("cerr", TRUE)
  /\ pc' = "Open"
  /\ UNCHANGED <<argc, argv1, out_dir, dir_fn, sample_num, batches,
                 writer_properties, idx, table, sample_fn, file, st,
                 exit_code, dirs, files, open_fds, wt, names, run>>

(***************************************************************************)
(* DoMain, line 106.  FileOutputStream::Open creates the file, or          *)
(* truncates the one already there.                                        *)
(***************************************************************************)
EmptyFile == [groups |-> <<>>, footer |-> FALSE]

WithFile(path, content) ==
  [p \in DOMAIN files \cup {path} |-> IF p = path THEN content ELSE files[p]]

DoMain_Open ==
  /\ pc = "Open"
  /\ \E ok \in BOOLEAN :
       /\ log' = Called("Open", ok)
       /\ IF ok
            THEN /\ files' = WithFile(FnToString(sample_fn), EmptyFile)
                 /\ file' = FnToString(sample_fn)
                 /\ open_fds' = open_fds \cup {FnToString(sample_fn)}
                 /\ pc' = "WriteTable"
                 /\ UNCHANGED st
            ELSE /\ Returns("Open")
                 /\ UNCHANGED files
  /\ UNCHANGED <<argc, argv1, out_dir, dir_fn, sample_num, batches,
                 writer_properties, idx, table, sample_fn, exit_code, cerr,
                 dirs, wt, names, run>>

(***************************************************************************)
(* DoMain, lines 107-108.  WriteTable writes the row groups one after the  *)
(* other and then the footer; a failure leaves the row groups written so   *)
(* far in the file.                                                        *)
(***************************************************************************)
WriteTable(num_rows, chunk_size) ==
  [num_rows |-> num_rows, chunk_size |-> chunk_size, done |-> TRUE,
   groups |-> RowGroups(num_rows, chunk_size)]

DoMain_WriteTable_RemovesPartial ==
  /\ pc = "WriteTable"
  /\ wt' = WriteTable(table.num_rows, kChunkSize)
  /\ \/ /\ files' = WithFile(file, [groups |-> wt'.groups, footer |-> TRUE])
        /\ log' = Called("WriteTable", TRUE)
        /\ pc' = "Close"
        /\ UNCHANGED <<st, file, open_fds>>
     \/ /\ files' = [p \in DOMAIN files \ {file} |-> files[p]]
        /\ log' = Called("WriteTable", FALSE)
        /\ Returns("WriteTable")
  /\ UNCHANGED <<argc, argv1, out_dir, dir_fn, sample_num, batches,
                 writer_properties, idx, table, sample_fn, exit_code, cerr,
                 dirs, names, run>>

DoMain_WriteTable ==
  /\ pc = "WriteTable"
  /\ wt' = WriteTable(table.num_rows, kChunkSize)
  /\ \/ /\ files' = WithFile(file, [groups |-> wt'.groups, footer |-> TRUE])
        /\ log' = Called("WriteTable", TRUE)
        /\ pc' = "Close"
        /\ UNCHANGED <<st, file, open_fds>>
     \/ /\ \E k \in 0..Len(wt'.groups) :
             files' = WithFile(file, [groups |-> SubSeq(wt'.groups, 1, k),
                                      footer |-> FALSE])
        /\ log' = Called("WriteTable", FALSE)
        /\ Returns("WriteTable")
  /\ UNCHANGED <<argc, argv1, out_dir, dir_fn, sample_num, batches,
                 writer_properties, idx, table, sample_fn, exit_code, cerr,
                 dirs, names, run>>

(***************************************************************************)
(* DoMain, lines 109-110.  Close releases the descriptor whether or not it *)
(* reports an error; at the end of the loop body the locals of the body go *)
(* out of scope.                                                           *)
(***************************************************************************)
DoMain_Close_LeftToDestructor ==
  /\ pc = "Close"
  /\ open_fds' = open_fds \ {file}
  /\ file' = NoValue
  /\ idx' = idx + 1 /\ table' = None /\ sample_fn' = None
  /\ pc' = "for"
  /\ UNCHANGED <<argc, argv1, out_dir, dir_fn, sample_num, batches,
                 writer_properties, st, exit_code, cerr, dirs, files, wt,
                 log, names, run>>

DoMain_Close ==
  /\ pc = "Close"
  /\ \E ok \in BOOLEAN :
       /\ log' = Called("Close", ok)
       /\ IF ok
            THEN /\ open_fds' = open_fds \ {file}
                 /\ file' = NoValue
                 /\ idx' = idx + 1 /\ table' = None /\ sample_fn' = None
                 /\ pc' = "for"
                 /\ UNCHANGED st
            ELSE /\ Returns("Close")
                 /\ UNCHANGED <<idx, table, sample_fn>>
  /\ UNCHANGED <<argc, argv1, out_dir, dir_fn, sample_num, batches,
                 writer_properties, exit_code, cerr, dirs, files, wt, names,
                 run>>

\* Main, lines 126-131.
Main_st ==
  /\ pc = "Main_st"
  /\ IF st = "OK"
       THEN exit_code' = 0 /\ UNCHANGED cerr
       ELSE exit_code' = 1 /\ cerr' = Append(cerr, st)
  /\ pc' = "exited"
  /\ UNCHANGED <<argc, argv1, out_dir, dir_fn, sample_num, batches,
                 writer_properties, idx, table, sample_fn, file, st, dirs,
                 files, open_fds, wt, log, names, run>>

Next ==
  \/ Exec
  \/ Main
  \/ Usage
  \/ DoMain_FromString
  \/ DoMain_CreateDir
  \/ DoMain_sample_num
  \/ DoMain_Batches
  \/ DoMain_GetWriterProperties
  \/ DoMain_for
  \/ DoMain_ValidateFull
  \/ DoMain_FromRecordBatches
  \/ DoMain_Join
  \/ DoMain_cerr
  \/ DoMain_Open
  \/ DoMain_WriteTable
  \/ DoMain_Close
  \/ Main_st

Spec == Init /\ [][Next]_vars

(***************************************************************************)
(* WriteTable alone: the function applied to tables of 0..MaxRows rows and *)
(* chunk sizes 1..MaxChunk.                                                *)
(***************************************************************************)
InitWriteTable ==
  /\ pc = "WriteTable_alone" /\ argc = 0 /\ argv1 = NoValue
  /\ out_dir = NoValue /\ dir_fn = None /\ sample_num = -1
  /\ batches = <<>> /\ writer_properties = None /\ idx = 0
  /\ table = None /\ sample_fn = None /\ file = NoValue
  /\ st = "none" /\ exit_code = -1 /\ cerr = <<>> /\ open_fds = {}
  /\ log = <<>> /\ names = <<>> /\ run = 0
  /\ dirs = {} /\ files = [p \in {} |-> NoValue]
  /\ \E n \in 0..MaxRows, c \in 1..MaxChunk :
       wt = [num_rows |-> n, chunk_size |-> c, done |-> FALSE,
             groups |-> <<>>]

WriteTable_alone ==
  /\ pc = "WriteTable_alone"
  /\ wt' = WriteTable(wt.num_rows, wt.chunk_size)
  /\ pc' = "WriteTable_done"
  /\ UNCHANGED <<argc, argv1, out_dir, dir_fn, sample_num, batches,
                 writer_properties, idx, table, sample_fn, file, st,
                 exit_code, cerr, dirs, files, open_fds, log, names, run>>

\* The program, and beside it WriteTable on the small tables.
NextWriteTable == Next \/ WriteTable_alone

SpecWriteTable == (Init \/ InitWriteTable) /\ [][NextWriteTable]_vars

(***************************************************************************)
(* The program with a generator that does not keep its contract: line 63   *)
(* may also hand back any array of ListLen + 1 offsets the generator of    *)
(* Offsets would not return (not starting at 0, decreasing somewhere, or   *)
(* ending past the child array), and ListArray::FromArrays and             *)
(* RecordBatch::Make (lines 64 and 76) put it into the batch as it is.     *)
(* This is the case ValidateFull at line 100 is there for.                 *)
(***************************************************************************)
BrokenOffsets ==
  [1..(ListLen + 1) -> 0..(ValuesLen + 1)] \ Offsets(ListLen + 1, 0, ValuesLen)

DoMain_Batches_BrokenOffsets ==
  /\ pc = "Batches"
  /\ \E o \in BrokenOffsets :
       batches' = << [schema |-> ExampleSchema, num_rows |-> kBatchSize,
                      num_columns |-> 6,
                      d |-> [length |-> ListLen, offsets |-> o,
                             values_length |-> ValuesLen]] >>
  /\ log' = Called("Batches", TRUE)
  /\ pc' = "GetWriterProperties"
  /\ UNCHANGED <<argc, argv1, out_dir, dir_fn, sample_num,
                 writer_properties, idx, table, sample_fn, file, st,
                 open_fds, exit_code, cerr, dirs, files, wt, names, run>>

NextAnyOffsets == Next \/ DoMain_Batches_BrokenOffsets

SpecAnyOffsets == Init /\ [][NextAnyOffsets]_vars

(***************************************************************************)
(* Properties.                                                             *)
(***************************************************************************)
Failed == st \notin {"none", "OK"}

CallsOf(step) == {i \in DOMAIN log : log[i].step = step}

OkCallsOf(step) == {i \in DOMAIN log : log[i].step = step /\ log[i].ok}

\* The calls made inside the loop: what follows FromString, CreateDir and
\* Batches.
LoopLog == SubSeq(log, 4, Len(log))

LoopOrder ==
  <<"ValidateFull", "FromRecordBatches", "Join", "cerr", "Open",
    "WriteTable", "Close">>

(***************************************************************************)
(* C1.  The exit code: with an argument count other than two the process   *)
(* prints the usage message and exits with 2 and DoMain makes no call;     *)
(* with exactly one positional argument it exits with 0 if and only if     *)
(* DoMain returned OK, and with 1 after any failure of DoMain.             *)
(***************************************************************************)
C1_ExitCode ==
  /\ pc # "exited" => exit_code = -1
  /\ argc # 2 =>
       /\ log = <<>> /\ st = "none" /\ open_fds = {}
       /\ pc \in {"idle", "Main", "Usage", "exited"}
       /\ pc = "exited" => exit_code = 2 /\ cerr = <<UsageText>>
  /\ (argc = 2 /\ pc = "exited") =>
       /\ st # "none"
       /\ exit_code = 0 <=> st = "OK"
       /\ Failed => exit_code = 1 /\ log[Len(log)] = [step |-> st, ok |-> FALSE]
       /\ UsageText \notin {cerr[i] : i \in DOMAIN cerr}

C1_Witness == pc = "exited" /\ argc = 3 /\ exit_code = 2 /\ run = 2

(***************************************************************************)
(* C2.  Fail-fast: the step that fails is the last call DoMain makes, it   *)
(* hands the failure to Main, which exits with 1; no step ever removes a   *)
(* file, the failing step leaves every file other than the one being       *)
(* written as it was, and after the failure the run changes nothing on     *)
(* disk.                                                                   *)
(***************************************************************************)
C2_Step ==
  /\ DOMAIN files \subseteq DOMAIN files'
  /\ (~Failed /\ Failed') =>
       /\ pc' = "Main_st"
       /\ log' = Append(log, [step |-> st', ok |-> FALSE])
       /\ dirs' = dirs
       /\ \A p \in DOMAIN files : p # file => files'[p] = files[p]
  /\ (Failed /\ run' = run) =>
       /\ files' = files /\ dirs' = dirs /\ log' = log /\ st' = st
       /\ pc = "Main_st" /\ pc' = "exited" /\ exit_code' = 1

C2_FailFast == [][C2_Step]_vars

C2_Witness ==
  /\ Failed /\ pc = "exited" /\ st = "WriteTable"
  /\ file = NoValue
  /\ \E p \in DOMAIN files : ~files[p].footer /\ Len(files[p].groups) = 1
  /\ \E q \in DOMAIN files : files[q].footer

(***************************************************************************)
(* C3.  sample_num starts at 1 in every run and is advanced once per       *)
(* scenario: the k-th name handed out is pq-table-k, no name is handed out *)
(* twice, and scenario idx is written to <out_dir>/pq-table-idx.           *)
(***************************************************************************)
C3_SampleNames ==
  /\ \A k \in DOMAIN names : names[k] = "pq-table-" \o ToString(k)
  /\ \A i, j \in DOMAIN names : names[i] = names[j] => i = j
  /\ sample_num # -1 => sample_num = Len(names) + 1
  /\ pc \in {"Batches", "GetWriterProperties"} => sample_num = 1
  /\ pc \in {"ValidateFull", "FromRecordBatches", "Join"} => sample_num = idx
  /\ pc \in {"cerr", "Open", "WriteTable", "Close"} =>
       /\ sample_num = idx + 1
       /\ FnToString(sample_fn) = out_dir \o "/pq-table-" \o ToString(idx)
  /\ pc \in {"WriteTable", "Close"} =>
       /\ file = out_dir \o "/pq-table-" \o ToString(idx)
       /\ file \in DOMAIN files

C3_Witness ==
  /\ run = 2 /\ pc = "Open" /\ out_dir = "d1"
  /\ sample_fn = [native |-> "d1/pq-table-1"]
  /\ "d1/pq-table-1" \in DOMAIN files

(***************************************************************************)
(* C4, as claimed.  A batch that reaches the write has been validated      *)
(* twice, the second time directly before the write.                       *)
(***************************************************************************)
C4_ValidatedTwice ==
  pc = "WriteTable" =>
    /\ Cardinality(CallsOf("ValidateFull")) >= 2 * idx
    /\ log[Len(log)].step = "ValidateFull"

(***************************************************************************)
(* C4, amended.  DoMain validates each batch exactly once, as the first    *)
(* call of its loop iteration: before the table conversion, the file name, *)
(* the opening of the sink and the write.  Only a batch whose validation   *)
(* succeeded gets that far.                                                *)
(***************************************************************************)
C4_ValidatedOnce ==
  /\ pc \in {"FromRecordBatches", "Join", "cerr", "Open", "WriteTable",
             "Close"} =>
       /\ Cardinality(CallsOf("ValidateFull")) = idx
       /\ OkCallsOf("ValidateFull") = CallsOf("ValidateFull")
       /\ ValidateFull(batches[idx])
  /\ \A j \in CallsOf("FromRecordBatches") \cup CallsOf("Open")
               \cup CallsOf("WriteTable") :
       \E i \in OkCallsOf("ValidateFull") :
         /\ i < j
         /\ \A h \in (i + 1)..(j - 1) : log[h].step # "Close"

C4_Witness ==
  /\ pc = "WriteTable"
  /\ Cardinality(CallsOf("ValidateFull")) = 1
  /\ log[Len(log)].step = "Open"

(***************************************************************************)
(* C6.  WriteTable cuts a table of R rows into consecutive row groups of   *)
(* at most chunk_size rows that sum to R, all but the last of exactly      *)
(* chunk_size rows; DoMain passes kBatchSize = 1000 rows and kChunkSize =  *)
(* 375, and its file holds the row groups 375, 375, 250.                   *)
(***************************************************************************)
C6_RowGroups ==
  /\ (wt # None /\ wt.done) =>
       /\ Sum(wt.groups) = wt.num_rows
       /\ \A i \in DOMAIN wt.groups :
            /\ wt.groups[i] >= 1
            /\ wt.groups[i] <= wt.chunk_size
            /\ i < Len(wt.groups) => wt.groups[i] = wt.chunk_size
  /\ pc = "Close" =>
       /\ wt.num_rows = 1000 /\ wt.chunk_size = 375
       /\ wt.groups = <<375, 375, 250>>
       /\ files[file] = [groups |-> <<375, 375, 250>>, footer |-> TRUE]

C6_Witness ==
  /\ pc = "Close"
  /\ files[file].groups = <<375, 375, 250>>

(***************************************************************************)
(* C7.  The offsets of every list column ExampleBatch1 generates start at  *)
(* 0, never decrease and end within the child array.  A run whose list     *)
(* column breaks one of these gets no further than ValidateFull: the call  *)
(* fails, DoMain returns that error and the process exits with 1, and the  *)
(* run neither converts the batch nor opens or writes a file.              *)
(***************************************************************************)
ListGood(d) ==
  /\ d.offsets[1] = 0
  /\ \A k \in 1..(Len(d.offsets) - 1) : d.offsets[k] <= d.offsets[k + 1]
  /\ d.offsets[d.length + 1] <= d.values_length

C7_ListOffsets ==
  /\ \A i \in DOMAIN batches :
       batches[i] \in ExampleBatch1 => ListGood(batches[i].d)
  /\ \A i \in DOMAIN batches :
       ~ListGood(batches[i].d) =>
         /\ CallsOf("FromRecordBatches") = {}
         /\ CallsOf("Open") = {} /\ CallsOf("WriteTable") = {}
         /\ open_fds = {} /\ file = NoValue
         /\ pc \in {"GetWriterProperties", "for", "ValidateFull", "Main_st",
                    "exited"}
         /\ CallsOf("ValidateFull") # {} =>
              /\ log[Len(log)] = [step |-> "ValidateFull", ok |-> FALSE]
              /\ st = "ValidateFull"
         /\ pc = "exited" => exit_code = 1

\* A second run meets a list column whose offsets end past the child
\* array: it stops at ValidateFull and leaves the file of the first run.
C7_Witness ==
  /\ run = 2 /\ pc = "exited" /\ exit_code = 1 /\ st = "ValidateFull"
  /\ batches[1].d.offsets = <<0, 1, ValuesLen + 1>>
  /\ CallsOf("Open") = {}
  /\ \E p \in DOMAIN files : files[p].footer

(***************************************************************************)
(* C8.  CreateDir is the first call that touches the file system; it       *)
(* succeeds on a directory that is already there, and DoMain builds no     *)
(* batch and opens no file unless it succeeded.                            *)
(***************************************************************************)
C8_CreateDir ==
  /\ Len(log) >= 2 =>
       /\ log[1] = [step |-> "FromString", ok |-> TRUE]
       /\ log[2].step = "CreateDir"
  /\ Len(log) >= 3 =>
       /\ log[2].ok
       /\ out_dir \in dirs
  /\ pc \in {"sample_num", "Batches"} => out_dir \in dirs
  /\ open_fds # {} => out_dir \in dirs
  /\ st = "CreateDir" =>
       /\ out_dir \notin dirs
       /\ Len(log) = 2 /\ batches = <<>> /\ open_fds = {}

C8_Witness ==
  /\ run = 2 /\ pc = "sample_num"
  /\ (out_dir \o "/pq-table-1") \in DOMAIN files
  /\ log[2] = [step |-> "CreateDir", ok |-> TRUE]

(***************************************************************************)
(* C10.  The calls of a loop iteration come in the order validate, table,  *)
(* file name, path to cerr, open, write, close; at most one sink is open   *)
(* at a time and only between its Open and its Close; a sink is opened     *)
(* only after a successful validation; a run that returns OK has called    *)
(* Close once for every sink it opened.                                    *)
(***************************************************************************)
C10_SinkLifecycle ==
  /\ \A j \in DOMAIN LoopLog :
       /\ LoopLog[j].step = LoopOrder[((j - 1) % 7) + 1]
       /\ j < Len(LoopLog) => LoopLog[j].ok
  /\ Cardinality(open_fds) <= 1
  /\ open_fds # {} => pc \in {"WriteTable", "Close"} /\ open_fds = {file}
  /\ pc \in {"Open", "WriteTable", "Close"} =>
       cerr[Len(cerr)] = FnToString(sample_fn)
  /\ \A j \in CallsOf("Open") : \E i \in OkCallsOf("ValidateFull") : i < j
  /\ st = "OK" =>
       /\ open_fds = {} /\ file = NoValue
       /\ Cardinality(OkCallsOf("Open")) = Len(batches)
       /\ Cardinality(OkCallsOf("Close")) = Len(batches)
       /\ Cardinality(CallsOf("Close")) = Len(batches)

C10_Witness ==
  /\ pc = "exited" /\ st = "OK" /\ exit_code = 0
  /\ Len(LoopLog) = 7
  /\ \E p \in DOMAIN files : files[p].footer

====
